---- MODULE Spec2Model ----
(***************************************************************************)
(* A model of potty (src/src/lib.rs): the line-oriented reader of gettext  *)
(* PO text (Pot::read), the command applicator (PotCommand) and the writer *)
(* (Pot::write, Display for PotMessage).                                   *)
(*                                                                         *)
(* Text is a sequence of one-character strings.  Option<T> is a sequence   *)
(* of length at most one: <<>> is None and <<v>> is Some(v).               *)
(***************************************************************************)
EXTENDS Integers, Sequences, FiniteSets, TLC

VARIABLES consumed, pot, message, command, pc, result, catalog, out, wi

vars == <<consumed, pot, message, command, pc, result, catalog, out, wi>>

\* ------------------------------------------------------------------ bounds
\* lines read from the stream / messages of a catalog given to Pot::write /
\* largest index n of a msgstr[n] line.
MaxLines == 4
MaxMsgs == 2
MaxIdx == 2

\* ------------------------------------------------------------- characters
DQ == "\""
BS == "\\"
NL == "\n"
SP == " "

\* the apostrophe, as an atom
SQ == "APOSTROPHE"

Lower ==
  {"a","b","c","d","e","f","g","h","i","j","k","l","m","n","o","p","q","r",
   "s","t","u","v","w","x","y","z","_"}

DigitSeq == <<"0","1","2","3","4","5","6","7","8","9">>

Digits == {DigitSeq[i] : i \in 1..10}

DigitVal(c) == (CHOOSE i \in 1..10 : DigitSeq[i] = c) - 1

Whitespace == {SP, "\t", NL, "\r", "\f", "VT"}

None == <<>>

Some(v) == <<v>>

\* s[a..b], empty when a > b
Slice(s, a, b) == IF a > b THEN <<>> ELSE SubSeq(s, a, b)

\* usize::from_str on a run of digits
RECURSIVE ParseNat(_)
ParseNat(ds) ==
  IF ds = <<>> THEN 0
  ELSE 10 * ParseNat(Slice(ds, 1, Len(ds) - 1)) + DigitVal(ds[Len(ds)])

\* "{}" of a usize
RECURSIVE ShowNat(_)
ShowNat(n) ==
  IF n < 10 THEN <<DigitSeq[n + 1]>>
  ELSE ShowNat(n \div 10) \o <<DigitSeq[(n % 10) + 1]>>

\* str::trim_start
RECURSIVE TrimStart(_)
TrimStart(s) ==
  IF s # <<>> /\ s[1] \in Whitespace THEN TrimStart(Tail(s)) ELSE s

\* ------------------------------------------------------------ unescape
\* snailquote::unescape, the shell-like unquoting the reader calls on the
\* text between the quotes of a line.  Outside quotes every character is
\* literal; an apostrophe opens a span without escapes; a double quote opens
\* a span in which a backslash starts an escape.  An escape that is unknown,
\* or a backslash that ends the text, is an error.  (\u{...} escapes are outside the alphabets used here and count as
\* unknown.)
EscapeOf(c) ==
  CASE c = "a" -> "BEL"
    [] c = "b" -> "BSP"
    [] c = "v" -> "VT"
    [] c = "f" -> "\f"
    [] c = "n" -> NL
    [] c = "r" -> "\r"
    [] c = "t" -> "\t"
    [] c = "e" -> "ESC"
    [] c = "E" -> "ESC"
    [] OTHER -> c

Escapable == {"a","b","v","f","n","r","t","e","E", BS, SQ, DQ, "DOLLAR", "BACKTICK", SP}

RECURSIVE UnescapeFrom(_, _, _, _)
UnescapeFrom(s, i, mode, acc) ==
  IF i > Len(s) THEN [ok |-> TRUE, v |-> acc]
  ELSE
    LET c == s[i] IN
    CASE mode = "single" ->
           IF c = SQ THEN UnescapeFrom(s, i + 1, "none", acc)
           ELSE UnescapeFrom(s, i + 1, mode, Append(acc, c))
      [] mode = "double" ->
           IF c = DQ THEN UnescapeFrom(s, i + 1, "none", acc)
           ELSE IF c = BS THEN
             IF i = Len(s) \/ s[i + 1] \notin Escapable
             THEN [ok |-> FALSE, v |-> <<>>]
             ELSE UnescapeFrom(s, i + 2, mode, Append(acc, EscapeOf(s[i + 1])))
           ELSE UnescapeFrom(s, i + 1, mode, Append(acc, c))
      [] OTHER ->
           IF c = SQ THEN UnescapeFrom(s, i + 1, "single", acc)
           ELSE IF c = DQ THEN UnescapeFrom(s, i + 1, "double", acc)
           ELSE UnescapeFrom(s, i + 1, mode, Append(acc, c))

Unescape(s) == UnescapeFrom(s, 1, "none", <<>>)

\* ------------------------------------------------------------- messages
NewMessage ==
  [comments |-> <<>>, context |-> None, id |-> None, id_plural |-> None,
   strings |-> <<>>]

is_valid(m) ==
  m.id # None
  /\ (Len(m.strings) = 1 \/ (m.id_plural # None /\ Len(m.strings) > 1))

\* ------------------------------------------------------------- comments
is_comment(s) == s # <<>> /\ s[1] = "#"

\* PotCommentKind::from_str: &s[1..2] is out of range for a one-character
\* line, and the slice panics.
KindFromStr(s) ==
  IF ~is_comment(s) THEN [tag |-> "Err", kind |-> "Translator"]
  ELSE IF Len(s) < 2 THEN [tag |-> "Panic", kind |-> "Translator"]
  ELSE [tag |-> "Ok",
        kind |-> CASE s[2] = ":" -> "Reference"
                   [] s[2] = "." -> "Extracted"
                   [] s[2] = "," -> "Flag"
                   [] s[2] = "|" -> "Previous"
                   [] OTHER -> "Translator"]

CommentFromStr(s) ==
  IF ~is_comment(s) THEN [tag |-> "Err", kind |-> "Translator", content |-> <<>>]
  ELSE
    LET k == KindFromStr(s) IN
    IF k.tag = "Panic"
    THEN [tag |-> "Panic", kind |-> "Translator", content |-> <<>>]
    ELSE [tag |-> "Ok", kind |-> k.kind,
          content |-> TrimStart(IF k.kind = "Translator"
                                THEN Slice(s, 2, Len(s))
                                ELSE Slice(s, 3, Len(s)))]

KindMark(kind) ==
  CASE kind = "Reference" -> <<":">>
    [] kind = "Extracted" -> <<".">>
    [] kind = "Flag" -> <<",">>
    [] kind = "Previous" -> <<"|">>
    [] OTHER -> <<>>

DisplayComment(c) == <<"#">> \o KindMark(c.kind) \o <<SP>> \o c.content

\* ------------------------------------------------------------- commands
NewCommand == [key |-> <<>>, value |-> <<>>, index |-> None]

\* [a-z_]+ at the start of s: the length of the longest such run
KwEnd(s) ==
  IF s = <<>> \/ s[1] \notin Lower THEN 0
  ELSE CHOOSE k \in 1..Len(s) :
         /\ \A i \in 1..k : s[i] \in Lower
         /\ (k = Len(s) \/ s[k + 1] \notin Lower)

\* (?:\[(?P<idx>[0-9]+)\])? after position k: the position of its last
\* character (k when the group is skipped) and the digits captured
IdxGroup(s, k) ==
  LET ends == {j \in (k + 3)..Len(s) :
                 /\ s[k + 1] = "["
                 /\ s[j] = "]"
                 /\ \A i \in (k + 2)..(j - 1) : s[i] \in Digits}
  IN IF ends = {} THEN [last |-> k, digits |-> <<>>]
     ELSE LET j == CHOOSE x \in ends : TRUE
          IN [last |-> j, digits |-> Slice(s, k + 2, j - 1)]

\* (?P<val>.*?[^\\])?" from position b on: val is the shortest text that
\* ends in a character other than a backslash and is followed by a quote;
\* when there is none, the group is skipped and s[b] must be the quote.
ValGroup(s, b) ==
  LET ends == {e \in b..(Len(s) - 1) : s[e] # BS /\ s[e + 1] = DQ}
  IN IF ends # {}
     THEN LET e == CHOOSE x \in ends : \A y \in ends : x <= y
          IN [ok |-> TRUE, val |-> Slice(s, b, e)]
     ELSE [ok |-> b <= Len(s) /\ s[b] = DQ, val |-> <<>>]

\* the regex of PotCommand::from_str, which is anchored at the start of the
\* line only
CommandRegex(s) ==
  LET k == KwEnd(s)
      g == IdxGroup(s, k)
      p == g.last + 1
      bad == [ok |-> FALSE, cmd |-> <<>>, idx |-> <<>>, val |-> <<>>]
  IN IF k = 0 \/ p + 1 > Len(s) \/ s[p] # SP \/ s[p + 1] # DQ THEN bad
     ELSE LET v == ValGroup(s, p + 2)
          IN IF v.ok
             THEN [ok |-> TRUE, cmd |-> Slice(s, 1, k), idx |-> g.digits,
                   val |-> v.val]
             ELSE bad

\* PotCommand::from_str: Err when the regex does not match, a panic when
\* unescape(val).unwrap() meets an error
CommandFromStr(s) ==
  LET caps == CommandRegex(s) IN
  IF ~caps.ok THEN [tag |-> "Err", cmd |-> NewCommand]
  ELSE LET u == Unescape(caps.val) IN
       IF ~u.ok THEN [tag |-> "Panic", cmd |-> NewCommand]
       ELSE [tag |-> "Ok",
             cmd |-> [key |-> caps.cmd, value |-> u.v,
                      index |-> IF caps.idx = <<>> THEN None
                                ELSE Some(ParseNat(caps.idx))]]

\* the regex of Pot::read for a bare quoted line, ^"(.*?[^\\])?"$
ContinuationRegex(s) ==
  IF Len(s) >= 3 /\ s[1] = DQ /\ s[Len(s)] = DQ /\ s[Len(s) - 1] # BS
  THEN [ok |-> TRUE, val |-> Slice(s, 2, Len(s) - 1)]
  ELSE [ok |-> s = <<DQ, DQ>>, val |-> <<>>]

KwMsgctxt == <<"m","s","g","c","t","x","t">>

KwMsgid == <<"m","s","g","i","d">>

KwMsgidPlural == <<"m","s","g","i","d","_","p","l","u","r","a","l">>

KwMsgstr == <<"m","s","g","s","t","r">>

unwrap_or_default(index) == IF index = None THEN 0 ELSE index[1]

\* can_apply as it would be if msgstr were allowed on an empty strings only
can_applyFirstOnly(cmd, msg) ==
  CASE cmd.key = KwMsgctxt ->
         msg.context = None /\ msg.id = None /\ msg.id_plural = None
         /\ msg.strings = <<>>
    [] cmd.key = KwMsgid ->
         msg.id = None /\ msg.id_plural = None /\ msg.strings = <<>>
    [] cmd.key = KwMsgidPlural ->
         msg.id_plural = None /\ msg.strings = <<>>
    [] cmd.key = KwMsgstr -> msg.strings = <<>>
    [] OTHER -> FALSE

can_apply(cmd, msg) ==
  CASE cmd.key = KwMsgctxt ->
         msg.context = None /\ msg.id = None /\ msg.id_plural = None
         /\ msg.strings = <<>>
    [] cmd.key = KwMsgid ->
         msg.id = None /\ msg.id_plural = None /\ msg.strings = <<>>
    [] cmd.key = KwMsgidPlural ->
         msg.id_plural = None /\ msg.strings = <<>>
    [] cmd.key = KwMsgstr ->
         unwrap_or_default(cmd.index) + 1 > Len(msg.strings)
    [] OTHER -> FALSE

force_apply(cmd, msg) ==
  CASE cmd.key = KwMsgctxt -> [msg EXCEPT !.context = Some(cmd.value)]
    [] cmd.key = KwMsgid -> [msg EXCEPT !.id = Some(cmd.value)]
    [] cmd.key = KwMsgidPlural -> [msg EXCEPT !.id_plural = Some(cmd.value)]
    [] cmd.key = KwMsgstr ->
         LET idx == unwrap_or_default(cmd.index) IN
         IF idx + 1 > Len(msg.strings)
         THEN [msg EXCEPT !.strings = Append(@, cmd.value)]
         ELSE [msg EXCEPT !.strings[idx + 1] = cmd.value]
    [] OTHER -> msg

\* apply as it would be without the can_apply guard
applyForces(cmd, msg) == [msg |-> force_apply(cmd, msg), applied |-> TRUE]

\* apply: the message afterwards and the value returned
apply(cmd, msg) ==
  IF ~can_apply(cmd, msg) THEN [msg |-> msg, applied |-> FALSE]
  ELSE [msg |-> force_apply(cmd, msg), applied |-> TRUE]

\* ------------------------------------------------------------- display
Quoted(kw, v) == kw \o <<SP, DQ>> \o v \o <<DQ, NL>>

RECURSIVE DisplayComments(_)
DisplayComments(cs) ==
  IF cs = <<>> THEN <<>>
  ELSE DisplayComment(Head(cs)) \o <<NL>> \o DisplayComments(Tail(cs))

\* the msgstr lines of strings[i..], indexed when the message has a plural
RECURSIVE DisplayStrings(_, _)
DisplayStrings(m, i) ==
  IF i > Len(m.strings) THEN <<>>
  ELSE (IF m.id_plural # None
        THEN Quoted(KwMsgstr \o <<"[">> \o ShowNat(i - 1) \o <<"]">>,
                    m.strings[i])
        ELSE Quoted(KwMsgstr, m.strings[i]))
       \o DisplayStrings(m, i + 1)

\* fmt::Display for PotMessage: the values are written as they are
DisplayMessage(m) ==
  DisplayComments(m.comments)
  \o (IF m.context # None THEN Quoted(KwMsgctxt, m.context[1]) ELSE <<>>)
  \o (IF m.id # None THEN Quoted(KwMsgid, m.id[1]) ELSE <<>>)
  \o (IF m.id_plural # None THEN Quoted(KwMsgidPlural, m.id_plural[1])
      ELSE <<>>)
  \o DisplayStrings(m, 1)

\* WriteChunks as it would be if the separator test were i < len
WriteChunksTrailing(msgs, i) ==
  <<DisplayMessage(msgs[i])>>
  \o (IF i - 1 < Len(msgs) THEN <<(<<NL>>)>> ELSE <<>>)

\* one turn of the loop of Pot::write for messages[i] (1-based): the chunks
\* handed to writer.write
WriteChunks(msgs, i) ==
  <<DisplayMessage(msgs[i])>>
  \o (IF i - 1 < Len(msgs) - 1 THEN <<(<<NL>>)>> ELSE <<>>)

RECURSIVE Flatten(_)
Flatten(chunks) ==
  IF chunks = <<>> THEN <<>> ELSE Head(chunks) \o Flatten(Tail(chunks))

\* BufRead::lines: the text split at newlines, a carriage return before the
\* newline dropped; no line for an empty rest
RECURSIVE TextLines(_)
TextLines(text) ==
  IF text = <<>> THEN <<>>
  ELSE LET nls == {i \in 1..Len(text) : text[i] = NL}
           n == IF nls = {} THEN Len(text) + 1
                ELSE CHOOSE i \in nls : \A j \in nls : i <= j
           raw == Slice(text, 1, n - 1)
           line == IF nls # {} /\ raw # <<>> /\ raw[Len(raw)] = "\r"
                   THEN Slice(raw, 1, Len(raw) - 1) ELSE raw
       IN <<line>> \o TextLines(Slice(text, n + 1, Len(text)))

\* ---------------------------------------------------------------- read
\* The state of Pot::read between two lines is st = [pot, message, command,
\* pc]; pc is "reading", or "panicked" once an unwrap or a slice has panicked.
Panicked(st) == [st EXCEPT !.pc = "panicked"]

\* what the loop body computes from the text of a line before it touches
\* the state: the branch, and the value each parse of the line gives
Classify(s) ==
  IF CommentFromStr(s).tag # "Err" THEN "Comment"
  ELSE IF CommandFromStr(s).tag # "Err" THEN "Command"
  ELSE IF ContinuationRegex(s).ok THEN "Continuation"
  ELSE "Unrecognized"

ParseLine(s) ==
  [class |-> Classify(s),
   comment |-> CommentFromStr(s),
   cmd |-> CommandFromStr(s),
   body |-> Unescape(ContinuationRegex(s).val)]

\* lines 167-172, c the parsed comment
CommentStep(st, c) ==
  LET closed == is_valid(st.message)
      m == IF closed THEN NewMessage ELSE st.message
  IN IF c.tag = "Panic" THEN Panicked(st)
     ELSE [st EXCEPT
             !.pot = IF closed THEN Append(@, st.message) ELSE @,
             !.message = [m EXCEPT !.comments =
                            Append(@, [kind |-> c.kind, content |-> c.content])]]

\* CommandStep as it would be if a failed unescape made the line be skipped
CommandStepSkipsBadEscape(st, c) ==
  LET closed == ~can_apply(c.cmd, st.message)
      m == IF closed THEN NewMessage ELSE st.message
  IN IF c.tag = "Panic" THEN st
     ELSE [st EXCEPT
             !.pot = IF closed THEN Append(@, st.message) ELSE @,
             !.message = apply(c.cmd, m).msg,
             !.command = c.cmd]

\* CommandStep as it would be if the current message were pushed but not
\* replaced by a fresh one
CommandStepNoFreshMessage(st, c) ==
  LET closed == ~can_apply(c.cmd, st.message)
  IN IF c.tag = "Panic" THEN Panicked(st)
     ELSE [st EXCEPT
             !.pot = IF closed THEN Append(@, st.message) ELSE @,
             !.message = apply(c.cmd, st.message).msg,
             !.command = c.cmd]

\* lines 173-179, c the parsed command
CommandStep(st, c) ==
  LET closed == ~can_apply(c.cmd, st.message)
      m == IF closed THEN NewMessage ELSE st.message
  IN IF c.tag = "Panic" THEN Panicked(st)
     ELSE [st EXCEPT
             !.pot = IF closed THEN Append(@, st.message) ELSE @,
             !.message = apply(c.cmd, m).msg,
             !.command = c.cmd]

\* ContinuationStep as it would be if the body replaced the value
ContinuationStepReplaces(st, u) ==
  LET cmd == [st.command EXCEPT !.value = u.v]
  IN IF ~u.ok THEN Panicked(st)
     ELSE [st EXCEPT !.command = cmd,
                     !.message = force_apply(cmd, st.message)]

\* ContinuationStep as it would be if the text were appended to
\* last_command only and not written to the current message
ContinuationStepValueOnly(st, u) ==
  LET cmd == [st.command EXCEPT !.value = @ \o u.v]
  IN IF ~u.ok THEN Panicked(st)
     ELSE [st EXCEPT !.command = cmd]

\* lines 180-184, u the unescaped body of the line
ContinuationStep(st, u) ==
  LET cmd == [st.command EXCEPT !.value = @ \o u.v]
  IN IF ~u.ok THEN Panicked(st)
     ELSE [st EXCEPT !.command = cmd,
                     !.message = force_apply(cmd, st.message)]

\* ParsedStep as it would be if a line of no kind closed a valid message
ParsedStepBlankCloses(st, p) ==
  CASE p.class = "Comment" -> CommentStep(st, p.comment)
    [] p.class = "Command" -> CommandStep(st, p.cmd)
    [] p.class = "Continuation" -> ContinuationStep(st, p.body)
    [] OTHER ->
         IF is_valid(st.message)
         THEN [st EXCEPT !.pot = Append(@, st.message), !.message = NewMessage]
         ELSE st

\* the loop body, lines 166-184, on a parsed line
ParsedStep(st, p) ==
  CASE p.class = "Comment" -> CommentStep(st, p.comment)
    [] p.class = "Command" -> CommandStep(st, p.cmd)
    [] p.class = "Continuation" -> ContinuationStep(st, p.body)
    [] OTHER -> st

LineStep(st, s) == ParsedStep(st, ParseLine(s))

\* EndOfInput as it would be if a message with the id of the last one
\* replaced it
EndOfInputReplaces(st) ==
  IF st.pot = <<>> \/ st.pot[Len(st.pot)].id # st.message.id
  THEN Append(st.pot, st.message)
  ELSE [st.pot EXCEPT ![Len(st.pot)] = st.message]

\* EndOfInput as it would be if the current message were pushed only when
\* it is valid
EndOfInputValidOnly(st) ==
  IF is_valid(st.message) THEN Append(st.pot, st.message) ELSE st.pot

\* lines 187-191: the catalog returned
EndOfInput(st) ==
  IF st.pot = <<>> \/ st.pot[Len(st.pot)].id # st.message.id
  THEN Append(st.pot, st.message)
  ELSE st.pot

ReadStart ==
  [pot |-> <<>>, message |-> NewMessage, command |-> NewCommand,
   pc |-> "reading"]

RECURSIVE ReadFrom(_, _)
ReadFrom(st, lines) ==
  IF st.pc = "panicked" \/ lines = <<>> THEN st
  ELSE ReadFrom(LineStep(st, Head(lines)), Tail(lines))

\* Pot::read on a whole text: None when it panicked
ReadAll(lines) ==
  LET st == ReadFrom(ReadStart, lines)
  IN IF st.pc = "panicked" THEN None ELSE Some(EndOfInput(st))

\* ------------------------------------------------------- the input lines
A == <<"a">>

B == <<"b">>

\* \"\q : the backslash is literal, the quote opens a span, \q is no escape
BadBody == <<BS, DQ, BS, "q">>

CmdLine(kw, body) == kw \o <<SP, DQ>> \o body \o <<DQ>>

IdxLine(i, body) == CmdLine(KwMsgstr \o <<"[">> \o ShowNat(i) \o <<"]">>, body)

ContLine(body) == <<DQ>> \o body \o <<DQ>>

IdxBody(i) == IF i % 2 = 0 THEN A ELSE B

CommentLines == {<<"#">>, <<"#", ":", SP, "a">>}

CommandLines ==
  {CmdLine(KwMsgctxt, A), CmdLine(KwMsgid, A), CmdLine(KwMsgid, B),
   CmdLine(KwMsgidPlural, B), CmdLine(KwMsgstr, A),
   CmdLine(<<"d","o","m","a","i","n">>, A), CmdLine(KwMsgid, BadBody)}
  \cup {IdxLine(i, IdxBody(i)) : i \in 0..MaxIdx}

ContinuationLines == {ContLine(A), ContLine(BadBody)}

OtherLines == {<<>>, <<"x">>}

InputLines == CommentLines \cup CommandLines \cup ContinuationLines \cup OtherLines

\* the parse of every input line
Parsed == [s \in InputLines |-> ParseLine(s)]

\* ------------------------------------------------- Pot::read, line by line
State == [pot |-> pot, message |-> message, command |-> command, pc |-> pc]

Init ==
  /\ consumed = <<>>
  /\ pot = <<>>
  /\ message = NewMessage
  /\ command = NewCommand
  /\ pc = "reading"
  /\ result = None
  /\ catalog = <<>>
  /\ out = <<>>
  /\ wi = 0

\* the loop body on the next line s of the stream
Consume(s) ==
  LET st == ParsedStep(State, Parsed[s]) IN
  /\ pc = "reading"
  /\ Len(consumed) < MaxLines
  /\ consumed' = Append(consumed, s)
  /\ pot' = st.pot
  /\ message' = st.message
  /\ command' = st.command
  /\ pc' = st.pc
  /\ UNCHANGED <<result, catalog, out, wi>>

ReadComment == \E s \in InputLines : Parsed[s].class = "Comment" /\ Consume(s)

ReadCommand == \E s \in InputLines : Parsed[s].class = "Command" /\ Consume(s)

ReadContinuation ==
  \E s \in InputLines : Parsed[s].class = "Continuation" /\ Consume(s)

ReadSkip == \E s \in InputLines : Parsed[s].class = "Unrecognized" /\ Consume(s)

\* the stream ends: lines 187-191
ReadEnd ==
  /\ pc = "reading"
  /\ pot' = EndOfInput(State)
  /\ result' = Some(pot')
  /\ pc' = "returned"
  /\ UNCHANGED <<consumed, message, command, catalog, out, wi>>

Next == ReadComment \/ ReadCommand \/ ReadContinuation \/ ReadSkip \/ ReadEnd

Spec == Init /\ [][Next]_vars

\* --------------------------------- Pot::write, then Pot::read of its output
Singular(id, str) == [NewMessage EXCEPT !.id = Some(id), !.strings = <<str>>]

Values == {A, B, <<DQ>>, <<BS>>, <<"a", NL, "b">>}

\* valid messages: one string and no plural, or a plural and two strings
Messages ==
  {Singular(v, B) : v \in Values} \cup {Singular(A, v) : v \in Values}
  \cup {[Singular(A, B) EXCEPT !.context = Some(A)],
        [Singular(B, A) EXCEPT
           !.comments = <<[kind |-> "Reference", content |-> A]>>],
        [Singular(B, B) EXCEPT
           !.comments = <<[kind |-> "Translator", content |-> A]>>],
        [NewMessage EXCEPT !.id = Some(A), !.id_plural = Some(B),
                           !.strings = <<A, B>>]}

RECURSIVE SeqsUpTo(_, _)
SeqsUpTo(S, n) ==
  IF n = 0 THEN {<<>>}
  ELSE LET shorter == SeqsUpTo(S, n - 1)
       IN shorter \cup {Append(q, x) : q \in shorter, x \in S}

InitWrite ==
  /\ catalog \in SeqsUpTo(Messages, MaxMsgs)
  /\ out = <<>>
  /\ wi = 0
  /\ pc = "writing"
  /\ consumed = <<>>
  /\ pot = <<>>
  /\ message = NewMessage
  /\ command = NewCommand
  /\ result = None

\* one turn of the loop of Pot::write, lines 195-200
WriteMessage ==
  /\ pc = "writing"
  /\ wi < Len(catalog)
  /\ out' = out \o WriteChunks(catalog, wi + 1)
  /\ wi' = wi + 1
  /\ UNCHANGED <<consumed, pot, message, command, pc, result, catalog>>

\* line 201
WriteDone ==
  /\ pc = "writing"
  /\ wi = Len(catalog)
  /\ pc' = "written"
  /\ UNCHANGED <<consumed, pot, message, command, result, catalog, out, wi>>

\* Pot::read on the text written
ReadBack ==
  /\ pc = "written"
  /\ consumed' = TextLines(Flatten(out))
  /\ result' = ReadAll(consumed')
  /\ pc' = IF result' = None THEN "panicked" ELSE "returned"
  /\ pot' = IF result' = None THEN pot ELSE result'[1]
  /\ UNCHANGED <<message, command, catalog, out, wi>>

NextWrite == WriteMessage \/ WriteDone \/ ReadBack

SpecWrite == InitWrite /\ [][NextWrite]_vars

\* ------------------------------------ PotCommand::apply on its own
\* every command shape: the four keywords, another keyword and the empty key
\* of PotCommand::new, without index and with each index
ApplyCommands ==
  {[key |-> k, value |-> B, index |-> ix] :
     k \in {KwMsgctxt, KwMsgid, KwMsgidPlural, KwMsgstr,
            <<"d","o","m","a","i","n">>, <<>>},
     ix \in {None} \cup {Some(i) : i \in 0..MaxIdx}}

\* every message shape: each optional field unset or set, 0..MaxIdx+1 strings
ApplyMessages ==
  {[comments |-> <<>>, context |-> c, id |-> i, id_plural |-> p,
    strings |-> [k \in 1..n |-> A]] :
     c \in {None, Some(A)}, i \in {None, Some(A)}, p \in {None, Some(A)},
     n \in 0..(MaxIdx + 1)}

InitApply ==
  /\ message \in ApplyMessages
  /\ command \in ApplyCommands
  /\ pc = "apply"
  /\ result = None
  /\ consumed = <<>>
  /\ pot = <<>>
  /\ catalog = <<>>
  /\ out = <<>>
  /\ wi = 0

\* cmd.apply(&mut message): result holds the value returned
Apply ==
  /\ pc = "apply"
  /\ message' = apply(command, message).msg
  /\ result' = Some(apply(command, message).applied)
  /\ pc' = "applied"
  /\ UNCHANGED <<consumed, pot, command, catalog, out, wi>>

NextApply == Apply

SpecApply == InitApply /\ [][NextApply]_vars

\* ------------------------------------------------------------ properties
\* values without quotes, backslashes or newlines: the text between the
\* quotes of a line is the value itself
PlainValues == {A, B}

LastLine == consumed[Len(consumed)]

Finished == pc \in {"returned", "panicked"}

\* the text between the quotes of a line kw "body"
BodyOf(kw, line) == Slice(line, Len(kw) + 3, Len(line) - 1)

FieldKeywords == {KwMsgctxt, KwMsgid, KwMsgidPlural, KwMsgstr}

\* the lines kw "v" and "v" with v a plain value
PlainLines == [kw \in FieldKeywords |-> {CmdLine(kw, v) : v \in PlainValues}]

PlainContinuations == {ContLine(v) : v \in PlainValues}

IsLine(kw, line) == line \in PlainLines[kw]

IsPlainContinuation(line) == line \in PlainContinuations

\* the lines msgstr[i] "t_i"
IdxLines == [i \in 0..(MaxLines + MaxIdx) |-> IdxLine(i, IdxBody(i))]

\* the field a keyword names; for msgstr without index, the first string
FieldOf(m, kw) ==
  CASE kw = KwMsgctxt -> m.context
    [] kw = KwMsgid -> m.id
    [] kw = KwMsgidPlural -> m.id_plural
    [] OTHER -> IF m.strings = <<>> THEN None ELSE Some(m.strings[1])

\* the bodies of the continuation lines lines[i..], concatenated
RECURSIVE ContinuationBodies(_, _)
ContinuationBodies(lines, i) ==
  IF i > Len(lines) THEN <<>>
  ELSE Slice(lines[i], 2, Len(lines[i]) - 1) \o ContinuationBodies(lines, i + 1)

\* msgid "x_1", msgstr "y_1", ..., msgid "x_n", msgstr "y_n" with n >= 1
IsPairs(lines) ==
  /\ Len(lines) >= 2
  /\ Len(lines) % 2 = 0
  /\ \A i \in 1..Len(lines) :
       IF i % 2 = 1 THEN IsLine(KwMsgid, lines[i]) ELSE IsLine(KwMsgstr, lines[i])

\* msgid "s", msgid_plural "p", msgstr[0] "t_0", ..., msgstr[k-1] "t_(k-1)"
\* with k >= 2
IsPluralInput(lines) ==
  /\ Len(lines) >= 4
  /\ IsLine(KwMsgid, lines[1])
  /\ IsLine(KwMsgidPlural, lines[2])
  /\ \A i \in 3..Len(lines) : lines[i] = IdxLines[i - 3]

\* the text written holds a line that parses to a command kw with value v
EmittedLineGives(kw, v) ==
  \E k \in 1..Len(TextLines(Flatten(out))) :
    LET c == CommandFromStr(TextLines(Flatten(out))[k])
    IN c.tag = "Ok" /\ c.cmd.key = kw /\ c.cmd.value = v

\* the input lines whose quoted body fails unescaping
DecodeFailingLines ==
  {l \in InputLines :
     /\ ~is_comment(l)
     /\ \/ CommandRegex(l).ok /\ ~Unescape(CommandRegex(l).val).ok
        \/ /\ ~CommandRegex(l).ok
           /\ ContinuationRegex(l).ok
           /\ ~Unescape(ContinuationRegex(l).val).ok}

\* the input lines that are no comment, command or continuation
UnrecognizedLines ==
  {l \in InputLines :
     ~is_comment(l) /\ ~CommandRegex(l).ok /\ ~ContinuationRegex(l).ok}

\* C1: Round-trip.  For every catalog of valid messages (the empty catalog,
\* consecutive messages with the same id and values with quotes, backslashes
\* or newlines included), Pot::read of the text Pot::write produced returns a
\* catalog with the same messages, position by position.
C1_RoundTrip == Finished => result = Some(catalog)

\* C2: Message boundary.  Reading n >= 1 consecutive pairs msgid "x_i",
\* msgstr "y_i" returns exactly n messages, the i-th with id x_i and strings
\* <<y_i>>, no context, no plural and no comments, in source order.
C2_PairsYieldMessages ==
  (pc = "returned" /\ IsPairs(consumed))
  => result = Some([i \in 1..(Len(consumed) \div 2) |->
                      Singular(BodyOf(KwMsgid, consumed[2 * i - 1]),
                               BodyOf(KwMsgstr, consumed[2 * i]))])

\* C3: Plural handling.  Reading msgid "s", msgid_plural "p" and then
\* msgstr[0] "t_0" ... msgstr[k-1] "t_(k-1)" in index order, k >= 2, returns
\* exactly one message with id s, plural p and strings <<t_0, ..., t_(k-1)>>,
\* and writing that message emits one line msgstr[i] "t_i" per string, in
\* index order, and no unindexed msgstr line: the lines written are the lines
\* read.
C3_PluralHandling ==
  (pc = "returned" /\ IsPluralInput(consumed))
  => /\ result =
          Some(<<[NewMessage EXCEPT
                    !.id = Some(BodyOf(KwMsgid, consumed[1])),
                    !.id_plural = Some(BodyOf(KwMsgidPlural, consumed[2])),
                    !.strings = [i \in 1..(Len(consumed) - 2) |->
                                   IdxBody(i - 1)]]>>)
     /\ TextLines(DisplayMessage(result[1][1])) = consumed

C3_Witness == pc = "returned" /\ IsPluralInput(consumed)

\* C4: Continuation concatenation.  After a command line msgctxt, msgid,
\* msgid_plural or msgstr (no index) with value v and k >= 1 continuation
\* lines with bodies c_1..c_k right after it, the field of the current
\* message that the command set is v \o c_1 \o ... \o c_k, and so is
\* last_command.value.
C4_ContinuationConcatenation ==
  pc # "panicked"
  => \A j \in 1..(Len(consumed) - 1) :
       \A kw \in FieldKeywords :
         (/\ IsLine(kw, consumed[j])
          /\ \A i \in (j + 1)..Len(consumed) : IsPlainContinuation(consumed[i]))
         => LET acc == BodyOf(kw, consumed[j])
                       \o ContinuationBodies(consumed, j + 1)
            IN /\ FieldOf(message, kw) = Some(acc)
               /\ command.value = acc

C4_Witness ==
  /\ pc = "reading"
  /\ Len(consumed) >= 3
  /\ IsLine(KwMsgstr, consumed[Len(consumed) - 2])
  /\ IsPlainContinuation(consumed[Len(consumed) - 1])
  /\ IsPlainContinuation(LastLine)
  /\ message.strings = <<BodyOf(KwMsgstr, consumed[Len(consumed) - 2])
                         \o A \o A>>

\* C5: Out-of-order index fill.  Applying msgstr[n] "b" to a message whose
\* strings has length L <= n leaves strings with at least n+1 elements, the
\* one at index n being "b".
C5_OutOfOrderIndexFill ==
  [][\A n \in 0..MaxIdx :
       (/\ pc = "reading"
        /\ consumed' = Append(consumed, IdxLines[n])
        /\ Len(message.strings) <= n)
       => /\ Len(message'.strings) >= n + 1
          /\ message'.strings[n + 1] = IdxBody(n)]_vars

\* C6: Escaping on write inverts unescaping on read.  For every field value
\* v of a message written (context, id, id_plural or a string), the text
\* written holds a line with the field's keyword that parses, as a command,
\* to the value v again.
C6_WrittenLineParsesBack ==
  pc = "written"
  => \A i \in 1..Len(catalog) :
       /\ \A kw \in {KwMsgctxt, KwMsgid, KwMsgidPlural} :
            FieldOf(catalog[i], kw) # None
            => EmittedLineGives(kw, FieldOf(catalog[i], kw)[1])
       /\ \A k \in 1..Len(catalog[i].strings) :
            EmittedLineGives(KwMsgstr, catalog[i].strings[k])

\* C7: Write layout.  For a catalog of n >= 1 messages Pot::write hands the
\* writer the serializations of the messages in catalog order, one newline
\* (a blank line of the text) between each two consecutive ones and nothing
\* after the last: n - 1 separators in all.
C7_WriteLayout ==
  (pc = "written" /\ Len(catalog) >= 1)
  => /\ Len(out) = 2 * Len(catalog) - 1
     /\ \A i \in 1..Len(catalog) : out[2 * i - 1] = DisplayMessage(catalog[i])
     /\ \A i \in 1..(Len(catalog) - 1) : out[2 * i] = <<NL>>
     /\ Cardinality({k \in 1..Len(out) : out[k] = <<NL>>}) = Len(catalog) - 1

C7_Witness == pc = "written" /\ Len(catalog) >= 2 /\ Len(out) = 3

\* C8: A line that is the single character # is a Translator comment with
\* empty content, appended to the comments of the current message; Pot::read
\* does not fail on it.
C8_BareHashIsTranslatorComment ==
  (consumed # <<>> /\ LastLine = <<"#">>)
  => /\ pc # "panicked"
     /\ message.comments # <<>>
     /\ message.comments[Len(message.comments)] =
          [kind |-> "Translator", content |-> <<>>]

\* C9: Fatal decode failure.  When the quoted body of a command line or of a
\* continuation line fails unescaping, Pot::read stops at that line and
\* returns no catalog; no line after it is processed.
C9_FatalDecodeFailure ==
  \A j \in 1..Len(consumed) :
    consumed[j] \in DecodeFailingLines
    => pc = "panicked" /\ result = None /\ j = Len(consumed)

C9_Witness ==
  /\ pc = "panicked"
  /\ pot # <<>>
  /\ message # NewMessage
  /\ LastLine \in DecodeFailingLines

C11_ValidityPredicate ==
  is_valid(message)
    <=> /\ message.id # None
        /\ \/ message.id_plural = None /\ Len(message.strings) = 1
           \/ message.id_plural # None /\ Len(message.strings) > 1

\* the table of conditions under which a command may be applied
TableAllows(cmd, msg) ==
  CASE cmd.key = KwMsgctxt ->
         msg.context = None /\ msg.id = None /\ msg.id_plural = None
         /\ Len(msg.strings) = 0
    [] cmd.key = KwMsgid ->
         msg.id = None /\ msg.id_plural = None /\ Len(msg.strings) = 0
    [] cmd.key = KwMsgidPlural ->
         msg.id_plural = None /\ Len(msg.strings) = 0
    [] cmd.key = KwMsgstr ->
         (IF cmd.index = None THEN 0 ELSE cmd.index[1]) + 1 > Len(msg.strings)
    [] OTHER -> FALSE

\* C12: apply is guarded by can_apply.  For every command and every message
\* state, apply changes the message and returns true exactly when the
\* condition of the table holds (msgctxt: context, id, id_plural unset and
\* strings empty; msgid: id, id_plural unset and strings empty; msgid_plural:
\* id_plural unset and strings empty; msgstr with index i, default 0: i+1 >
\* strings length; any other key: never); otherwise it returns false and
\* leaves every field of the message unchanged.
C12_ApplyGuardedByCanApply ==
  [][(pc = "apply" /\ pc' = "applied")
     => /\ result' = Some(TableAllows(command, message))
        /\ TableAllows(command, message) => message' # message
        /\ ~TableAllows(command, message) => message' = message]_vars

C12_Witness ==
  /\ pc = "applied"
  /\ result = Some(FALSE)
  /\ command.key = KwMsgstr
  /\ command.index = Some(1)
  /\ Len(message.strings) = 2

\* the comment each comment line stands for
CommentOf ==
  <<"#">> :> [kind |-> "Translator", content |-> <<>>]
  @@ <<"#", ":", SP, "a">> :> [kind |-> "Reference", content |-> A]

\* the comment step as claimed, for the comment lines ls
CommentStepAsClaimed(ls) ==
  \A l \in ls :
    (pc = "reading" /\ consumed' = Append(consumed, l))
    => /\ pot' = IF is_valid(message) THEN Append(pot, message) ELSE pot
       /\ message' =
            [(IF is_valid(message) THEN NewMessage ELSE message)
               EXCEPT !.comments = Append(@, CommentOf[l])]
       /\ command' = command

\* C13: Comment step.  When a comment line is processed, a valid current
\* message is pushed to the catalog unchanged (without the new comment) and a
\* fresh empty message becomes current, otherwise the catalog is unchanged; in
\* both cases the comment then becomes the last element of the current
\* message's comments, and last_command is unchanged.
C13_CommentStep == [][CommentStepAsClaimed(CommentLines)]_vars

\* the command lines of the four keywords with a plain value, each with the
\* command it stands for
CommandCases ==
  {[line |-> CmdLine(kw, v), cmd |-> [key |-> kw, value |-> v, index |-> None]] :
     kw \in FieldKeywords, v \in PlainValues}
  \cup {[line |-> IdxLines[i],
         cmd |-> [key |-> KwMsgstr, value |-> IdxBody(i), index |-> Some(i)]] :
          i \in 0..MaxIdx}

\* m holds the value of cmd in the field cmd.key names
HoldsValue(m, cmd) ==
  CASE cmd.key = KwMsgctxt -> m.context = Some(cmd.value)
    [] cmd.key = KwMsgid -> m.id = Some(cmd.value)
    [] cmd.key = KwMsgidPlural -> m.id_plural = Some(cmd.value)
    [] cmd.key = KwMsgstr -> \E k \in 1..Len(m.strings) : m.strings[k] = cmd.value
    [] OTHER -> FALSE

\* C14: Command step.  When a command line msgctxt, msgid, msgid_plural or
\* msgstr with value v is processed, the catalog grows by exactly one message
\* (the previous current message, unchanged) iff the command could not be
\* applied to the previous current message, and otherwise does not grow; after
\* the step the current message holds v in the field the key names (for
\* msgstr, as an element of strings), and last_command is that command.
C14_CommandStep ==
  [][\A c \in CommandCases :
       (pc = "reading" /\ consumed' = Append(consumed, c.line))
       => /\ pot' = IF TableAllows(c.cmd, message) THEN pot
                    ELSE Append(pot, message)
          /\ HoldsValue(message', c.cmd)
          /\ command' = c.cmd]_vars

C14_Witness ==
  /\ pc = "reading"
  /\ Len(consumed) >= 2
  /\ LastLine = CmdLine(KwMsgid, B)
  /\ pot = <<[NewMessage EXCEPT !.id = Some(A)]>>
  /\ message = [NewMessage EXCEPT !.id = Some(B)]
  /\ command = [key |-> KwMsgid, value |-> B, index |-> None]

\* C15: End-of-input rule.  After the last line the current message is
\* pushed as the final message iff the catalog is empty or the id of the last
\* pushed message differs from the id of the current message (two unset ids
\* are equal); so a catalog that Pot::read returns has at least one message,
\* and for the empty input it has exactly one message with all fields empty.
C15_EndOfInputRule ==
  [][(pc = "reading" /\ pc' = "returned")
     => /\ pot' = IF Len(pot) = 0 \/ pot[Len(pot)].id # message.id
                  THEN Append(pot, message) ELSE pot
        /\ result' = Some(pot')
        /\ Len(pot') >= 1
        /\ consumed = <<>> => pot' = <<NewMessage>>]_vars

C15_Witness ==
  /\ pc = "returned"
  /\ Len(consumed) >= 3
  /\ is_valid(message)
  /\ Len(result[1]) = 1
  /\ result[1][1] # message
  /\ result[1][1].id = message.id

\* the msgstr lines, without index and with each index
MsgstrLines ==
  PlainLines[KwMsgstr] \cup {IdxLines[i] : i \in 0..MaxIdx}

\* C16: Continuation extends rather than starts a field.  A continuation
\* line processed while last_command is a msgstr command (any index, also one
\* beyond the current length) that was applied to the current message never
\* changes the number of elements of the message's strings; it only replaces
\* the one element that this msgstr command wrote.
C16_ContinuationKeepsLength ==
  [][(/\ pc = "reading"
      /\ consumed # <<>>
      /\ LastLine \in MsgstrLines
      /\ \E l \in PlainContinuations : consumed' = Append(consumed, l))
     => /\ Len(message'.strings) = Len(message.strings)
        /\ \A k \in 1..(Len(message.strings) - 1) :
             message'.strings[k] = message.strings[k]]_vars

\* lines keyword "body" whose keyword is made of lowercase letters and is
\* none of the four
OtherKeywordLines == {CmdLine(<<"d","o","m","a","i","n">>, A)}

\* C17: Only the four keywords form command lines.  A line keyword "body"
\* whose keyword is lowercase letters and underscores but is not msgctxt,
\* msgid, msgid_plural or msgstr (such as domain "x") is unrecognized:
\* processing it leaves the catalog, the current message and last_command
\* unchanged.
C17_OtherKeywordsIgnored ==
  [][\A l \in OtherKeywordLines :
       (pc = "reading" /\ consumed' = Append(consumed, l))
       => UNCHANGED <<pot, message, command>>]_vars

\* ---------------------------------------------------------------------
\* Classification of one line (lines 166-184 seen as a function of the line)

MaxLineLen == 6

ClassifyAlphabet == {"a", SP, DQ, BS}

ClassifyLines ==
  UNION {[1..n -> ClassifyAlphabet] : n \in 0..MaxLineLen}

InitClassify ==
  /\ consumed \in {<<s>> : s \in ClassifyLines}
  /\ pot = <<>>
  /\ message = NewMessage
  /\ command = NewCommand
  /\ pc = "classify"
  /\ result = None
  /\ catalog = <<>>
  /\ out = <<>>
  /\ wi = 0

ClassifyLine ==
  /\ pc = "classify"
  /\ result' = Some(Classify(consumed[1]))
  /\ pc' = "classified"
  /\ UNCHANGED <<consumed, pot, message, command, catalog, out, wi>>

NextClassify == ClassifyLine

SpecClassify == InitClassify /\ [][NextClassify]_vars

\* the number of consecutive backslashes that end s[lo..hi]
BackslashRun(s, lo, hi) ==
  CHOOSE n \in 0..(hi - lo + 1) :
    /\ \A i \in (hi - n + 1)..hi : s[i] = BS
    /\ (n = hi - lo + 1 \/ s[hi - n] # BS)

\* the whole line is keyword, one space, a quote, a body, and a closing
\* quote that is the last character and is not escaped (an even number of
\* backslashes stands before it)
WholeLineForm(s) ==
  \E k \in 1..Len(s) :
    /\ \A i \in 1..k : s[i] \in Lower
    /\ Len(s) >= k + 3
    /\ s[k + 1] = SP
    /\ s[k + 2] = DQ
    /\ s[Len(s)] = DQ
    /\ BackslashRun(s, k + 3, Len(s) - 1) % 2 = 0

\* C18: Command classification matches the whole line.  Over lines built
\* from letters, space, quote and backslash, a line is classified as
\* Command exactly when the entire line is keyword, space, opening quote,
\* body, closing quote as the last character with the closing quote not
\* escaped; text after the closing quote makes the line no Command, and a
\* body ending in an escaped backslash is a Command.
C18_CommandIsWholeLine ==
  pc = "classified"
  => (result = Some("Command") <=> WholeLineForm(consumed[1]))

\* C19: Closed messages are immutable and the catalog is append-only.  In
\* every run of Pot::read each step either leaves the catalog unchanged or
\* appends exactly one message at its end, so no later line changes,
\* moves or removes a message that was pushed.
C19_CatalogAppendOnly ==
  [][\/ pot' = pot
     \/ /\ Len(pot') = Len(pot) + 1
        /\ \A k \in 1..Len(pot) : pot'[k] = pot[k]]_vars

\* a message was closed and later lines built another one
C19_Witness ==
  /\ pc = "reading"
  /\ Len(pot) = 1
  /\ pot[1] = [NewMessage EXCEPT !.id = Some(A)]
  /\ message.id = Some(B)
  /\ message.strings # <<>>

\* the message holds comments and nothing else
OnlyComments(m) ==
  /\ m.comments # <<>>
  /\ [m EXCEPT !.comments = <<>>] = NewMessage

\* C20: Continuation text never leaks into another message: after every
\* line, if last_command has a known key then its value is present in the
\* corresponding field of current_message (last_command was applied to
\* the message that is current now, not to one a comment line has closed).
C20_CommandValueInCurrentMessage ==
  (pc = "reading" /\ command.key \in FieldKeywords)
  => HoldsValue(message, command)

\* C20 as amended: after every line, if last_command has a known key then
\* its value is present in the corresponding field of current_message, or
\* current_message was started by a comment line after last_command was
\* applied and holds comments only.
C20_CommandValueOrFreshMessage ==
  (pc = "reading" /\ command.key \in FieldKeywords)
  => \/ HoldsValue(message, command)
     \/ OnlyComments(message)

\* a comment line closed the message last_command was applied to
C20_Witness ==
  /\ pc = "reading"
  /\ consumed # <<>>
  /\ LastLine \in CommentLines
  /\ command.key = KwMsgstr
  /\ pot # <<>>
  /\ HoldsValue(pot[Len(pot)], command)
  /\ ~HoldsValue(message, command)
  /\ OnlyComments(message)

====
